---- MODULE Spec2Model ----
(***************************************************************************)
(* ai-docify: the source-preserving docstring injector                     *)
(* (src/src/ai_docify/tools.py, insert_docstrings_to_source).              *)
(*                                                                         *)
(* Text is a sequence of atoms.  An atom is one character (" ", "\n", a   *)
(* quote, a letter of docstring content) or one fixed run of characters   *)
(* that the injector never looks into ("def f():", "pass", "42", ";").    *)
(* Concatenation of texts is \o, so "byte for byte" equality of texts is  *)
(* equality of atom sequences.                                             *)
(***************************************************************************)
EXTENDS Integers, Sequences, FiniteSets, TLC

VARIABLES
  original_source,   \* argument: the text to edit
  docstring_map,     \* argument: name -> raw docstring text
  pc,                \* where the call is
  lines,             \* the line buffer (entries are texts or None)
  tree,              \* what ast.parse returned
  lines_to_delete,   \* 0-based line indices marked for deletion
  insertions,        \* list of <<index, text>>
  todo,              \* nodes ast.walk has still to yield
  k,                 \* position of the insertion loop in insertions
  result,            \* the returned text (None until the call returns)
  calls,             \* two concurrent calls of the injector: each call's locals
  formatter,         \* one call of clean_docstring: arguments and returned block
  generator,         \* one call of generate_documentation (generator.py)
  command,           \* one run of the generate command (cli.py)
  stripper           \* one call of strip_docstrings (stripper.py)

\* The locals of the one call of insert_docstrings_to_source
call_vars == <<original_source, docstring_map, pc, lines, tree, lines_to_delete,
               insertions, todo, k, result>>

vars == <<original_source, docstring_map, pc, lines, tree, lines_to_delete,
          insertions, todo, k, result, calls, formatter, generator, command, stripper>>

\* A part of the program that does not run in the specification at hand
Idle == [pc |-> "idle"]

----------------------------------------------------------------------------
(* Atoms *)

SP == " "
NL == "\n"
DQ == "\""
SQ == "'"

\* Python's str.strip() / str.isspace() on the characters of the model
Whitespace == {SP, NL}

\* Three double quotes / three single quotes
DQ3 == <<DQ, DQ, DQ>>
SQ3 == <<SQ, SQ, SQ>>

\* The definition headers of the model and what ast.parse makes of them
Headers ==
  { [atom |-> "def f():",       kind |-> "FunctionDef",      name |-> "f"],
    [atom |-> "def g():",       kind |-> "FunctionDef",      name |-> "g"],
    [atom |-> "async def f():", kind |-> "AsyncFunctionDef", name |-> "f"],
    [atom |-> "class g:",       kind |-> "ClassDef",         name |-> "g"],
    [atom |-> "class g():",     kind |-> "ClassDef",         name |-> "g"] }

HeaderAtoms == { h.atom : h \in Headers }
HeaderOf(a) == CHOOSE h \in Headers : h.atom = a

\* The value Python's None has in the line buffer: no text equals it
None == <<"<None>">>

----------------------------------------------------------------------------
(* Text helpers (Python str methods) *)

\* " " * n
RECURSIVE Spaces(_)
Spaces(n) == IF n <= 0 THEN <<>> ELSE <<SP>> \o Spaces(n - 1)

\* s[i:] with a 1-based i
From(s, i) == SubSeq(s, i, Len(s))

\* s.startswith(p), s.endswith(p)
StartsWith(s, p) == Len(s) >= Len(p) /\ SubSeq(s, 1, Len(p)) = p
EndsWith(s, p) == Len(s) >= Len(p) /\ SubSeq(s, Len(s) - Len(p) + 1, Len(s)) = p

\* s.lstrip(), s.rstrip(), s.strip()
RECURSIVE LStrip(_)
LStrip(s) == IF s # <<>> /\ s[1] \in Whitespace THEN LStrip(Tail(s)) ELSE s
RECURSIVE RStrip(_)
RStrip(s) ==
  IF s # <<>> /\ s[Len(s)] \in Whitespace THEN RStrip(SubSeq(s, 1, Len(s) - 1)) ELSE s
Strip(s) == RStrip(LStrip(s))

\* s.split("\n"): always at least one piece
RECURSIVE SplitNL(_, _)
SplitNL(s, cur) ==
  IF s = <<>> THEN <<cur>>
  ELSE IF s[1] = NL THEN <<cur>> \o SplitNL(Tail(s), <<>>)
  ELSE SplitNL(Tail(s), Append(cur, s[1]))

\* SplitLines gone wrong: splitlines() without keepends, the terminators lost
RECURSIVE SplitLines_NoKeepEnds(_, _)
SplitLines_NoKeepEnds(s, cur) ==
  IF s = <<>> THEN (IF cur = <<>> THEN <<>> ELSE <<cur>>)
  ELSE IF s[1] = NL THEN <<cur>> \o SplitLines_NoKeepEnds(Tail(s), <<>>)
  ELSE SplitLines_NoKeepEnds(Tail(s), Append(cur, s[1]))

\* s.splitlines(keepends=True): no piece for an empty text, terminators kept
RECURSIVE SplitLines(_, _)
SplitLines(s, cur) ==
  IF s = <<>> THEN (IF cur = <<>> THEN <<>> ELSE <<cur>>)
  ELSE IF s[1] = NL THEN <<Append(cur, NL)>> \o SplitLines(Tail(s), <<>>)
  ELSE SplitLines(Tail(s), Append(cur, s[1]))

\* "".join(entries), entries a sequence of texts
RECURSIVE Join(_)
Join(ss) == IF ss = <<>> THEN <<>> ELSE Head(ss) \o Join(Tail(ss))

----------------------------------------------------------------------------
(* ast.parse: the part of Python's grammar the model's sources are written *)
(* in.  A statement node carries what the injector reads of it: its kind,  *)
(* name, col_offset, lineno, end_lineno, and its place in the tree (parent *)
(* = index of the owning definition in stmts, 0 for the Module; depth = 1  *)
(* for the Module's body).  stmts is in source order.  col_offset counts   *)
(* atoms; before a definition there are only spaces, so it is the column.  *)
(* end_lineno is kept for simple statements only (the injector reads it of *)
(* expression statements only) and is 0 on definitions.                    *)

Node(kind, name, col, lineno, end, parent, depth) ==
  [kind |-> kind, name |-> name, col_offset |-> col, lineno |-> lineno,
   end_lineno |-> end, parent |-> parent, depth |-> depth]

\* Kind of the simple statement starting with atom a ("" if none does)
SimpleKind(a) ==
  IF a = "pass" THEN "Pass"
  ELSE IF a = "42" THEN "Num"
  ELSE ""

\* Least j >= i with s[j..j+2] three double quotes, 0 if there is none
RECURSIVE FindQ3(_, _)
FindQ3(s, i) ==
  IF i + 2 > Len(s) THEN 0
  ELSE IF SubSeq(s, i, i + 2) = DQ3 THEN i
  ELSE FindQ3(s, i + 1)

\* Least j >= i with s[j] a single quote, 0 if there is none
RECURSIVE FindSQ(_, _)
FindSQ(s, i) ==
  IF i > Len(s) THEN 0
  ELSE IF s[i] = SQ THEN i
  ELSE FindSQ(s, i + 1)

\* Number of leading spaces
RECURSIVE Indent(_)
Indent(s) == IF s # <<>> /\ s[1] = SP THEN 1 + Indent(Tail(s)) ELSE 0

\* The line without its terminator
Chomp(line) ==
  IF line # <<>> /\ line[Len(line)] = NL THEN SubSeq(line, 1, Len(line) - 1) ELSE line

ParseFail(st) == [st EXCEPT !.ok = FALSE]

\* simple_stmt (';' simple_stmt)* on physical line i, T starting at column col;
\* a string in single quotes ends at the next single quote (the strings of the
\* model hold no quote, so none is escaped); a triple-quoted string that does
\* not close on the line leaves the parser inside the string (instr), its
\* end_lineno still to come.
RECURSIVE AddStmts(_, _, _, _, _, _)
RECURSIVE MoreStmts(_, _, _, _, _, _)
AddStmts(st, T, i, col, parent, depth) ==
  IF T = <<>> THEN ParseFail(st)
  ELSE IF SimpleKind(T[1]) # "" THEN
    MoreStmts([st EXCEPT !.stmts =
                 Append(@, Node(SimpleKind(T[1]), "", col, i, i, parent, depth))],
              Tail(T), i, col + 1, parent, depth)
  ELSE IF StartsWith(T, DQ3) THEN
    LET c == FindQ3(T, 4)
        s1 == [st EXCEPT !.stmts =
                 Append(@, Node("Str", "", col, i, i, parent, depth))]
    IN IF c = 0 THEN [s1 EXCEPT !.instr = TRUE]
       ELSE MoreStmts(s1, From(T, c + 3), i, col + c + 2, parent, depth)
  ELSE IF T[1] = SQ /\ ~StartsWith(T, SQ3) THEN
    LET c == FindSQ(T, 2)
    IN IF c = 0 THEN ParseFail(st)
       ELSE MoreStmts([st EXCEPT !.stmts =
                         Append(@, Node("Str", "", col, i, i, parent, depth))],
                      From(T, c + 1), i, col + c, parent, depth)
  ELSE ParseFail(st)
MoreStmts(st, U, i, col, parent, depth) ==
  IF U = <<>> THEN st
  ELSE IF StartsWith(U, <<";", SP>>) THEN AddStmts(st, From(U, 3), i, col + 2, parent, depth)
  ELSE ParseFail(st)

\* Dedent: pop the indentation stack down to width n
RECURSIVE PopTo(_, _)
PopTo(stack, n) ==
  IF Len(stack) > 1 /\ stack[Len(stack)].indent > n
  THEN PopTo(SubSeq(stack, 1, Len(stack) - 1), n)
  ELSE stack

\* A logical line R at indentation n, its block already on top of the stack
PlaceLine(st, R, n, i) ==
  LET parent == st.stack[Len(st.stack)].node
      depth  == Len(st.stack)
      idx    == Len(st.stmts) + 1
  IN IF R[1] \in HeaderAtoms THEN
       LET h  == HeaderOf(R[1])
           s1 == [st EXCEPT !.stmts =
                    Append(@, Node(h.kind, h.name, n, i, 0, parent, depth))]
       IN IF Len(R) = 1 THEN [s1 EXCEPT !.expect = TRUE, !.pend = idx]
          ELSE IF R[2] = SP THEN AddStmts(s1, From(R, 3), i, n + 2, idx, depth + 1)
          ELSE ParseFail(st)
     ELSE AddStmts(st, R, i, n, parent, depth)

\* One physical line (1-based number i) through tokenizer and block structure
LineStep(st, line, i) ==
  LET L == Chomp(line) IN
  IF ~st.ok THEN st
  ELSE IF st.instr THEN
    LET c == FindQ3(L, 1)
        last == Len(st.stmts)
    IN IF c = 0 THEN st
       ELSE MoreStmts([st EXCEPT !.stmts[last].end_lineno = i, !.instr = FALSE],
                      From(L, c + 3), i, c + 2,
                      st.stmts[last].parent, st.stmts[last].depth)
  ELSE
    LET n   == Indent(L)
        R   == From(L, n + 1)
        top == st.stack[Len(st.stack)]
    IN IF R = <<>> THEN st
       ELSE IF st.expect THEN
         IF n > top.indent
         THEN PlaceLine([st EXCEPT !.stack = Append(@, [indent |-> n, node |-> st.pend]),
                                   !.expect = FALSE], R, n, i)
         ELSE ParseFail(st)
       ELSE IF n > top.indent THEN ParseFail(st)
       ELSE LET stk == PopTo(st.stack, n)
            IN IF stk[Len(stk)].indent # n THEN ParseFail(st)
               ELSE PlaceLine([st EXCEPT !.stack = stk], R, n, i)

RECURSIVE ParseLines(_, _, _)
ParseLines(ls, i, st) ==
  IF i > Len(ls) THEN st ELSE ParseLines(ls, i + 1, LineStep(st, ls[i], i))

ParseInit ==
  [ok |-> TRUE, stack |-> <<[indent |-> 0, node |-> 0]>>, expect |-> FALSE,
   pend |-> 0, instr |-> FALSE, stmts |-> <<>>]

\* ast.parse(text): ok = FALSE stands for SyntaxError
Parse(text) ==
  LET st == ParseLines(SplitLines(text, <<>>), 1, ParseInit)
  IN [ok |-> st.ok /\ ~st.expect /\ ~st.instr, stmts |-> st.stmts]

\* node.body of node n (0 = the Module): indices into t.stmts, in order
RECURSIVE BodyFrom(_, _, _)
BodyFrom(t, n, i) ==
  IF i > Len(t.stmts) THEN <<>>
  ELSE IF t.stmts[i].parent = n THEN <<i>> \o BodyFrom(t, n, i + 1)
  ELSE BodyFrom(t, n, i + 1)
Body(t, n) == BodyFrom(t, n, 1)

\* isinstance(x, ast.Expr) and isinstance(x.value, ast.Constant)
IsConstantExpr(s) == s.kind \in {"Str", "Num"}

\* ast.walk(tree): breadth first, the Module (0) first, then level by level
RECURSIVE LevelFrom(_, _, _)
LevelFrom(t, d, i) ==
  IF i > Len(t.stmts) THEN <<>>
  ELSE IF t.stmts[i].depth = d THEN <<i>> \o LevelFrom(t, d, i + 1)
  ELSE LevelFrom(t, d, i + 1)
RECURSIVE WalkFrom(_, _)
WalkFrom(t, d) ==
  LET lv == LevelFrom(t, d, 1) IN IF lv = <<>> THEN <<>> ELSE lv \o WalkFrom(t, d + 1)

\* Walk gone wrong: only tree.body is gone through, nothing below it
Walk_TopLevelOnly(t) == <<0>> \o LevelFrom(t, 1, 1)

Walk(t) == <<0>> \o WalkFrom(t, 1)

----------------------------------------------------------------------------
(* clean_docstring *)

\* FormatLines gone wrong: a blank line gets the indent like any other
RECURSIVE FormatLines_IndentBlank(_, _)
FormatLines_IndentBlank(pieces, indent) ==
  IF pieces = <<>> THEN <<>>
  ELSE (indent \o Head(pieces) \o <<NL>>) \o FormatLines_IndentBlank(Tail(pieces), indent)

\* The loop over cleaned.split("\n")
RECURSIVE FormatLines(_, _)
FormatLines(pieces, indent) ==
  IF pieces = <<>> THEN <<>>
  ELSE (IF Strip(Head(pieces)) # <<>> THEN indent \o Head(pieces) \o <<NL>> ELSE <<NL>>)
       \o FormatLines(Tail(pieces), indent)

\* Unwrapped gone wrong: the length is not looked at, so the three quotes that
\* open the text are taken for the three that close it
Unwrapped_NoLength(cleaned, q3) ==
  StartsWith(cleaned, q3) /\ EndsWith(cleaned, q3)

\* cleaned[3:-3].strip() when cleaned is wrapped in q3 and has 6 characters or more
Unwrapped(cleaned, q3) ==
  StartsWith(cleaned, q3) /\ EndsWith(cleaned, q3) /\ Len(cleaned) >= 6

\* clean_docstring gone wrong: cleaned[3:-3] without the second strip()
clean_docstring_NoRestrip(raw_text, indent_level) ==
  LET indent   == Spaces(indent_level)
      stripped == Strip(raw_text)
      cleaned  == IF Unwrapped(stripped, DQ3) \/ Unwrapped(stripped, SQ3)
                  THEN SubSeq(stripped, 4, Len(stripped) - 3)
                  ELSE stripped
  IN (indent \o DQ3 \o <<NL>>)
     \o FormatLines(SplitNL(cleaned, <<>>), indent)
     \o (indent \o DQ3 \o <<NL>>)

clean_docstring(raw_text, indent_level) ==
  LET indent   == Spaces(indent_level)
      stripped == Strip(raw_text)
      cleaned  == IF Unwrapped(stripped, DQ3) \/ Unwrapped(stripped, SQ3)
                  THEN Strip(SubSeq(stripped, 4, Len(stripped) - 3))
                  ELSE stripped
  IN (indent \o DQ3 \o <<NL>>)
     \o FormatLines(SplitNL(cleaned, <<>>), indent)
     \o (indent \o DQ3 \o <<NL>>)

----------------------------------------------------------------------------
(* The steps of insert_docstrings_to_source *)

\* DocLines gone wrong: range(old_doc.lineno - 1, old_doc.end_lineno + 1)
DocLines_PastEnd(old_doc) == (old_doc.lineno - 1) .. old_doc.end_lineno

\* range(old_doc.lineno - 1, old_doc.end_lineno)
DocLines(old_doc) == (old_doc.lineno - 1) .. (old_doc.end_lineno - 1)

\* The existing docstring of a body, as the code finds it: the lines of the
\* first statement if it is an expression statement holding a constant
OldDocLines(t, n) ==
  LET body == Body(t, n)
  IN IF body # <<>> /\ IsConstantExpr(t.stmts[body[1]])
     THEN DocLines(t.stmts[body[1]])
     ELSE {}

\* Addressed gone wrong: a map with a key that names nothing in the tree is
\* turned down as a whole
Addressed_Strict(t, n, map) ==
  /\ n # 0
  /\ t.stmts[n].kind = "FunctionDef"
  /\ t.stmts[n].name \in DOMAIN map
  /\ \A key \in DOMAIN map \ {"__module__"} :
       \E i \in 1 .. Len(t.stmts) : t.stmts[i].name = key

\* isinstance(node, ast.FunctionDef) and node.name in docstring_map
Addressed(t, n, map) ==
  /\ n # 0
  /\ t.stmts[n].kind = "FunctionDef"
  /\ t.stmts[n].name \in DOMAIN map

\* node.body[0].lineno - 1
InsertionIndex(t, n) == t.stmts[Body(t, n)[1]].lineno - 1

\* insertions.sort(key=lambda x: x[0], reverse=True): stable
RECURSIVE SortedInsert(_, _)
SortedInsert(sorted, x) ==
  IF sorted = <<>> THEN <<x>>
  ELSE IF Head(sorted)[1] >= x[1] THEN <<Head(sorted)>> \o SortedInsert(Tail(sorted), x)
  ELSE <<x>> \o sorted
RECURSIVE SortDescending(_)
SortDescending(ins) ==
  IF ins = <<>> THEN <<>>
  ELSE SortedInsert(SortDescending(SubSeq(ins, 1, Len(ins) - 1)), ins[Len(ins)])

\* lines.insert(idx, text)
ListInsert(ls, idx, text) ==
  IF idx >= Len(ls) THEN Append(ls, text)
  ELSE SubSeq(ls, 1, idx) \o <<text>> \o From(ls, idx + 1)

\* [line for line in lines if line is not None]
NotNone(line) == line # None

\* ParseSource gone wrong: the SyntaxError is swallowed and the edit goes on
ParseSource_NoFallback ==
  /\ pc = "start"
  /\ lines' = SplitLines(original_source, <<>>)
  /\ tree' = Parse(Join(lines'))
  /\ pc' = "module"
  /\ lines_to_delete' = {}
  /\ insertions' = <<>>
  /\ UNCHANGED <<original_source, docstring_map, todo, k, result>>
  /\ UNCHANGED <<calls, formatter, generator, command, stripper>>

\* lines 41-46: split, parse, give up on SyntaxError
ParseSource ==
  /\ pc = "start"
  /\ lines' = SplitLines(original_source, <<>>)
  /\ tree' = Parse(Join(lines'))
  /\ IF tree'.ok
     THEN /\ pc' = "module"
          /\ lines_to_delete' = {}
          /\ insertions' = <<>>
          /\ UNCHANGED result
     ELSE /\ pc' = "done"
          /\ result' = original_source
          /\ UNCHANGED <<lines_to_delete, insertions>>
  /\ UNCHANGED <<original_source, docstring_map, todo, k>>
  /\ UNCHANGED <<calls, formatter, generator, command, stripper>>

\* lines 99-113: the module docstring
ModuleDocstring ==
  /\ pc = "module"
  /\ IF "__module__" \in DOMAIN docstring_map
     THEN /\ lines_to_delete' = lines_to_delete \cup OldDocLines(tree, 0)
          /\ insertions' =
               Append(insertions, <<0, clean_docstring(docstring_map["__module__"], 0)>>)
     ELSE UNCHANGED <<lines_to_delete, insertions>>
  /\ todo' = Walk(tree)
  /\ pc' = "walk"
  /\ UNCHANGED <<original_source, docstring_map, lines, tree, k, result>>
  /\ UNCHANGED <<calls, formatter, generator, command, stripper>>

\* lines 116-143: one iteration of the loop over ast.walk(tree)
VisitNode ==
  /\ pc = "walk"
  /\ todo # <<>>
  /\ LET node == Head(todo) IN
       IF Addressed(tree, node, docstring_map)
       THEN /\ lines_to_delete' = lines_to_delete \cup OldDocLines(tree, node)
            /\ insertions' =
                 Append(insertions,
                        <<InsertionIndex(tree, node),
                          clean_docstring(docstring_map[tree.stmts[node].name],
                                          tree.stmts[node].col_offset + 4)>>)
       ELSE UNCHANGED <<lines_to_delete, insertions>>
  /\ todo' = Tail(todo)
  /\ UNCHANGED <<original_source, docstring_map, pc, lines, tree, k, result>>
  /\ UNCHANGED <<calls, formatter, generator, command, stripper>>

\* The lines of ls whose 0-based index is not in del
RECURSIVE WithoutLines(_, _, _)
WithoutLines(ls, del, i) ==
  IF i > Len(ls) THEN <<>>
  ELSE (IF (i - 1) \in del THEN <<>> ELSE <<ls[i]>>) \o WithoutLines(ls, del, i + 1)

\* NullifyDeleted gone wrong: the marked lines are taken out of the list at
\* once (del lines[idx]) and every later line moves up
NullifyDeleted_RemoveAtOnce ==
  /\ pc = "walk"
  /\ todo = <<>>
  /\ lines' = WithoutLines(lines, lines_to_delete, 1)
  /\ pc' = "sort"
  /\ UNCHANGED <<original_source, docstring_map, tree, lines_to_delete, insertions,
                 todo, k, result>>
  /\ UNCHANGED <<calls, formatter, generator, command, stripper>>

\* lines 148-150: deleted lines become None, nothing shifts
NullifyDeleted ==
  /\ pc = "walk"
  /\ todo = <<>>
  /\ lines' = [i \in 1 .. Len(lines) |->
                 IF (i - 1) \in lines_to_delete THEN None ELSE lines[i]]
  /\ pc' = "sort"
  /\ UNCHANGED <<original_source, docstring_map, tree, lines_to_delete, insertions,
                 todo, k, result>>
  /\ UNCHANGED <<calls, formatter, generator, command, stripper>>

\* line 154
SortInsertions ==
  /\ pc = "sort"
  /\ insertions' = SortDescending(insertions)
  /\ k' = 1
  /\ pc' = "insert"
  /\ UNCHANGED <<original_source, docstring_map, lines, tree, lines_to_delete,
                 todo, result>>
  /\ UNCHANGED <<calls, formatter, generator, command, stripper>>

\* InsertBlock gone wrong: the bound is tested as for a read (idx < len(lines)),
\* so an insertion at the end of the buffer is dropped
InsertBlock_StrictBound ==
  /\ pc = "insert"
  /\ k <= Len(insertions)
  /\ LET idx == insertions[k][1]
         text == insertions[k][2]
     IN lines' = IF 0 <= idx /\ idx < Len(lines)
                 THEN ListInsert(lines, idx, text)
                 ELSE lines
  /\ k' = k + 1
  /\ UNCHANGED <<original_source, docstring_map, pc, tree, lines_to_delete,
                 insertions, todo, result>>
  /\ UNCHANGED <<calls, formatter, generator, command, stripper>>

\* lines 156-159: one iteration of the insertion loop
InsertBlock ==
  /\ pc = "insert"
  /\ k <= Len(insertions)
  /\ LET idx == insertions[k][1]
         text == insertions[k][2]
     IN lines' = IF 0 <= idx /\ idx <= Len(lines)
                 THEN ListInsert(lines, idx, text)
                 ELSE lines
  /\ k' = k + 1
  /\ UNCHANGED <<original_source, docstring_map, pc, tree, lines_to_delete,
                 insertions, todo, result>>
  /\ UNCHANGED <<calls, formatter, generator, command, stripper>>

\* line 162
JoinLines ==
  /\ pc = "insert"
  /\ k > Len(insertions)
  /\ result' = Join(SelectSeq(lines, NotNone))
  /\ pc' = "done"
  /\ UNCHANGED <<original_source, docstring_map, lines, tree, lines_to_delete,
                 insertions, todo, k>>
  /\ UNCHANGED <<calls, formatter, generator, command, stripper>>

----------------------------------------------------------------------------
(* Inputs *)

\* One physical line: n spaces, the atoms, the terminator
Ln(n, atoms) == Spaces(n) \o atoms \o <<NL>>

DocA == DQ3 \o <<"a">> \o DQ3

\* The pieces sources are put together from
ModDoc       == Ln(0, DQ3 \o <<"a">>) \o Ln(0, <<"a">> \o DQ3)
DocPass      == Ln(0, DocA \o <<";", SP, "pass">>)
BlankDefF    == <<NL>> \o Ln(0, <<"def f():">>) \o Ln(4, <<"pass">>)
DefFDoc      == Ln(0, <<"def f():">>) \o Ln(4, DocA) \o Ln(4, <<"pass">>)
DefFInline   == Ln(0, <<"def f():", SP, "pass">>)
DefG         == Ln(0, <<"def g():">>) \o Ln(4, <<"pass">>)
DefGNested   == Ln(0, <<"def g():">>) \o Ln(4, <<"def f():">>) \o Ln(8, <<"pass">>)
ClassGDoc    == Ln(0, <<"class g:">>) \o Ln(4, DocA) \o Ln(4, <<"pass">>)
AsyncFDoc    == Ln(0, <<"async def f():">>) \o Ln(4, DocA) \o Ln(4, <<"pass">>)
DefGInlineF  == Ln(0, <<"def g():">>) \o Ln(4, <<"def f():", SP, "pass">>)
DefGNum      == Ln(0, <<"def g():">>) \o Ln(4, <<"42">>)
IndentedPass == Ln(4, <<"pass">>)
ClassGMethodF == Ln(0, <<"class g:">>) \o Ln(4, <<"def f():">>) \o Ln(8, <<"pass">>)

Chunks == {ModDoc, DocPass, BlankDefF, DefFDoc, DefFInline, DefG, DefGNested,
           ClassGDoc, AsyncFDoc, DefGInlineF, DefGNum, IndentedPass, ClassGMethodF}

\* A source is at most MaxChunks pieces, one after the other
MaxChunks == 2

RECURSIVE ChunkSeqs(_)
ChunkSeqs(n) ==
  IF n = 0 THEN {<<>>}
  ELSE LET S == ChunkSeqs(n - 1) IN S \cup { Append(s, c) : s \in S, c \in Chunks }

Sources == { Join(cs) : cs \in ChunkSeqs(MaxChunks) }

Keys == {"__module__", "f", "g"}

\* The raw text the generator returned for a key
RawText(key) ==
  IF key = "__module__" THEN <<"m", NL, NL, "n">>
  ELSE IF key = "f" THEN <<SP, "x", NL>>
  ELSE DQ3 \o <<"y">> \o DQ3

Maps == { [key \in K |-> RawText(key)] : K \in SUBSET Keys }

NoTree == [ok |-> FALSE, stmts |-> <<>>]

Init ==
  /\ original_source \in Sources
  /\ docstring_map \in Maps
  /\ pc = "start"
  /\ lines = <<>>
  /\ tree = NoTree
  /\ lines_to_delete = {}
  /\ insertions = <<>>
  /\ todo = <<>>
  /\ k = 0
  /\ result = None
  /\ calls = Idle
  /\ formatter = Idle
  /\ generator = Idle
  /\ command = Idle
  /\ stripper = Idle

Next ==
  \/ ParseSource
  \/ ModuleDocstring
  \/ VisitNode
  \/ NullifyDeleted
  \/ SortInsertions
  \/ InsertBlock
  \/ JoinLines

Spec == Init /\ [][Next]_vars

----------------------------------------------------------------------------
(* The call as a value: the arguments and locals of one call in one record, *)
(* CallStep one step of it (the steps above, in the same order).  This is   *)
(* what a claim reads when it sets one call against another.                *)

\* The call on entry
CallStart(src, map) ==
  [original_source |-> src, docstring_map |-> map, pc |-> "start", lines |-> <<>>,
   tree |-> NoTree, lines_to_delete |-> {}, insertions |-> <<>>, todo |-> <<>>,
   k |-> 0, result |-> None]

\* lines 99-113: what is planned for the module
PlanModule(c) ==
  IF "__module__" \in DOMAIN c.docstring_map
  THEN [c EXCEPT
          !.lines_to_delete = @ \cup OldDocLines(c.tree, 0),
          !.insertions =
             Append(@, <<0, clean_docstring(c.docstring_map["__module__"], 0)>>)]
  ELSE c

\* lines 116-143: what is planned for node n of the walk
PlanNode(c, n) ==
  IF Addressed(c.tree, n, c.docstring_map)
  THEN [c EXCEPT
          !.lines_to_delete = @ \cup OldDocLines(c.tree, n),
          !.insertions =
             Append(@, <<InsertionIndex(c.tree, n),
                         clean_docstring(c.docstring_map[c.tree.stmts[n].name],
                                         c.tree.stmts[n].col_offset + 4)>>)]
  ELSE c

CallStep(c) ==
  CASE c.pc = "start" ->
         LET ls == SplitLines(c.original_source, <<>>)
             t  == Parse(Join(ls))
         IN IF t.ok
            THEN [c EXCEPT !.lines = ls, !.tree = t, !.pc = "module"]
            ELSE [c EXCEPT !.lines = ls, !.tree = t, !.pc = "done",
                           !.result = c.original_source]
    [] c.pc = "module" ->
         [PlanModule(c) EXCEPT !.todo = Walk(c.tree), !.pc = "walk"]
    [] c.pc = "walk" /\ c.todo # <<>> ->
         [PlanNode(c, Head(c.todo)) EXCEPT !.todo = Tail(c.todo)]
    [] c.pc = "walk" /\ c.todo = <<>> ->
         [c EXCEPT !.lines = [i \in 1 .. Len(c.lines) |->
                                IF (i - 1) \in c.lines_to_delete THEN None ELSE c.lines[i]],
                   !.pc = "sort"]
    [] c.pc = "sort" ->
         [c EXCEPT !.insertions = SortDescending(@), !.k = 1, !.pc = "insert"]
    [] c.pc = "insert" /\ c.k <= Len(c.insertions) ->
         LET idx  == c.insertions[c.k][1]
             text == c.insertions[c.k][2]
         IN [c EXCEPT !.lines = IF 0 <= idx /\ idx <= Len(c.lines)
                                 THEN ListInsert(c.lines, idx, text)
                                 ELSE c.lines,
                      !.k = @ + 1]
    [] c.pc = "insert" /\ c.k > Len(c.insertions) ->
         [c EXCEPT !.result = Join(SelectSeq(c.lines, NotNone)), !.pc = "done"]
    [] OTHER -> c

\* The call run from entry to return, nothing else running
RECURSIVE RunFrom(_)
RunFrom(c) == IF c.pc = "done" THEN c ELSE RunFrom(CallStep(c))
RunAlone(src, map) == RunFrom(CallStart(src, map))

----------------------------------------------------------------------------
(* clean_docstring on its own: one raw text and one indent, formatted as it *)
(* stands and formatted once more inside a pair of triple quotes.           *)

\* No call of insert_docstrings_to_source is running
CallIdle ==
  /\ original_source = <<>>
  /\ docstring_map = <<>>
  /\ pc = "idle"
  /\ lines = <<>>
  /\ tree = NoTree
  /\ lines_to_delete = {}
  /\ insertions = <<>>
  /\ todo = <<>>
  /\ k = 0
  /\ result = None

\* What raw texts are put together from
TextPieces == {<<SP>>, <<NL>>, <<"a">>, DQ3, SQ3}

\* A raw text is at most MaxPieces pieces
MaxPieces == 4

RECURSIVE PieceSeqs(_)
PieceSeqs(n) ==
  IF n = 0 THEN {<<>>}
  ELSE LET S == PieceSeqs(n - 1) IN S \cup { s \o piece : s \in S, piece \in TextPieces }

RawTexts == PieceSeqs(MaxPieces)
Indents == {0, 4}
Delimiters == {DQ3, SQ3}

FormatterInit ==
  /\ formatter \in { [pc |-> "ready", raw_text |-> t, indent_level |-> n, delimiter |-> q,
                       plain |-> None, wrapped |-> None] :
                       t \in RawTexts, n \in Indents, q \in Delimiters }
  /\ CallIdle
  /\ calls = Idle
  /\ generator = Idle
  /\ command = Idle
  /\ stripper = Idle

\* clean_docstring(raw_text, indent_level)
FormatPlain ==
  /\ formatter.pc = "ready"
  /\ formatter.plain = None
  /\ formatter' = [formatter EXCEPT
                     !.plain = clean_docstring(formatter.raw_text, formatter.indent_level)]
  /\ UNCHANGED <<call_vars, calls, generator, command, stripper>>

\* clean_docstring(delimiter + raw_text + delimiter, indent_level)
FormatWrapped ==
  /\ formatter.pc = "ready"
  /\ formatter.wrapped = None
  /\ formatter' = [formatter EXCEPT
                     !.wrapped = clean_docstring(formatter.delimiter \o formatter.raw_text
                                                   \o formatter.delimiter,
                                                 formatter.indent_level)]
  /\ UNCHANGED <<call_vars, calls, generator, command, stripper>>

FormatterNext ==
  \/ FormatPlain
  \/ FormatWrapped

FormatterSpec == FormatterInit /\ [][FormatterNext]_vars

----------------------------------------------------------------------------
(* Two calls of insert_docstrings_to_source at once (two threads of one     *)
(* caller): each call has the text it was given and the caller's one map,   *)
(* and takes its steps in any order with the other's.  tools.py has no      *)
(* module-level state: all a call works on is created in the call.          *)

CallIds == {1, 2}

\* Own gone wrong: lines_to_delete and insertions are module-level objects,
\* the ones the first call fills
Own_ModuleLevelPlan(c) ==
  [calls[c] EXCEPT !.lines_to_delete = calls[1].lines_to_delete,
                   !.insertions = calls[1].insertions]

\* lines 41-49: what call c works on is its own arguments and locals
Own(c) == calls[c]

\* Each call documents a one-piece file
ConcurrentSources == Chunks

ConcurrentInit ==
  /\ \E map \in Maps :
       calls \in { [c \in CallIds |-> CallStart(IF c = 1 THEN s1 ELSE s2, map)] :
                     s1 \in ConcurrentSources, s2 \in ConcurrentSources }
  /\ CallIdle
  /\ formatter = Idle
  /\ generator = Idle
  /\ command = Idle
  /\ stripper = Idle

\* Call c, standing at a step the guard describes, takes that step
Advance(c) ==
  /\ calls' = [calls EXCEPT ![c] = CallStep(Own(c))]
  /\ UNCHANGED <<call_vars, formatter, generator, command, stripper>>

ParseSourceIn(c) == Own(c).pc = "start" /\ Advance(c)
ModuleDocstringIn(c) == Own(c).pc = "module" /\ Advance(c)
VisitNodeIn(c) == Own(c).pc = "walk" /\ Own(c).todo # <<>> /\ Advance(c)
NullifyDeletedIn(c) == Own(c).pc = "walk" /\ Own(c).todo = <<>> /\ Advance(c)
SortInsertionsIn(c) == Own(c).pc = "sort" /\ Advance(c)
InsertBlockIn(c) ==
  Own(c).pc = "insert" /\ Own(c).k <= Len(Own(c).insertions) /\ Advance(c)
JoinLinesIn(c) ==
  Own(c).pc = "insert" /\ Own(c).k > Len(Own(c).insertions) /\ Advance(c)

ConcurrentNext ==
  \E c \in CallIds :
    \/ ParseSourceIn(c)
    \/ ModuleDocstringIn(c)
    \/ VisitNodeIn(c)
    \/ NullifyDeletedIn(c)
    \/ SortInsertionsIn(c)
    \/ InsertBlockIn(c)
    \/ JoinLinesIn(c)

ConcurrentSpec == ConcurrentInit /\ [][ConcurrentNext]_vars

----------------------------------------------------------------------------
(* Two calls with the same source and the same key/value pairs, the pairs   *)
(* put into each call's dict in an order of its own.  A dict keeps its      *)
(* items in insertion order; the function reads it by `in` and by           *)
(* subscript only (tools.py:99, 112, 118, 136), never by iteration.  The    *)
(* loop over the set lines_to_delete (tools.py:148) takes the indices in    *)
(* whatever order the set hands them out.                                   *)

\* The items of a dict: the keys of a set, in some insertion order, each with
\* its value
ItemSeqs ==
  { [i \in DOMAIN ks |-> <<ks[i], RawText(ks[i])>>] :
      ks \in { s \in UNION { [1 .. n -> Keys] : n \in 0 .. Cardinality(Keys) } :
                 \A i, j \in DOMAIN s : i # j => s[i] # s[j] } }

KeysOf(items) == { items[i][1] : i \in DOMAIN items }

\* The call on entry, with the items of its dict and the indices the deletion
\* loop has still to go through; d is what `key in d` and `d[key]` see of a
\* dict with these items
DictCall(src, items) ==
  LET d == [key \in KeysOf(items) |->
              items[CHOOSE i \in DOMAIN items : items[i][1] = key][2]]
      c == CallStart(src, d)
  IN [f \in DOMAIN c \cup {"items", "pending"} |->
        IF f = "items" THEN items ELSE IF f = "pending" THEN {} ELSE c[f]]

\* The two calls get the same source and two insertion orders of the same
\* pairs
DeterminismInit ==
  /\ calls \in { [c \in CallIds |-> DictCall(src, io[c])] :
                   src \in ConcurrentSources,
                   io \in { o \in ItemSeqs \X ItemSeqs : KeysOf(o[1]) = KeysOf(o[2]) } }
  /\ CallIdle
  /\ formatter = Idle
  /\ generator = Idle
  /\ command = Idle
  /\ stripper = Idle

\* Nullified gone wrong: the line is taken out of the list (del lines[idx])
Nullified_Deleted(ls, idx) == SubSeq(ls, 1, idx) \o From(ls, idx + 2)

\* lines[idx] = None
Nullified(ls, idx) == [ls EXCEPT ![idx + 1] = None]

\* line 148: the loop over the set begins
StartNullifyIn(c) ==
  /\ Own(c).pc = "walk"
  /\ Own(c).todo = <<>>
  /\ calls' = [calls EXCEPT ![c] = [Own(c) EXCEPT !.pc = "nullify",
                                                  !.pending = Own(c).lines_to_delete]]
  /\ UNCHANGED <<call_vars, formatter, generator, command, stripper>>

\* lines 148-150: one iteration, on whichever index the set hands out next
NullifyLineIn(c) ==
  /\ Own(c).pc = "nullify"
  /\ \E idx \in Own(c).pending :
       calls' = [calls EXCEPT ![c] =
                   [Own(c) EXCEPT
                      !.lines = IF 0 <= idx /\ idx < Len(Own(c).lines)
                                THEN Nullified(Own(c).lines, idx)
                                ELSE Own(c).lines,
                      !.pending = @ \ {idx}]]
  /\ UNCHANGED <<call_vars, formatter, generator, command, stripper>>

\* The set is gone through
EndNullifyIn(c) ==
  /\ Own(c).pc = "nullify"
  /\ Own(c).pending = {}
  /\ calls' = [calls EXCEPT ![c] = [Own(c) EXCEPT !.pc = "sort"]]
  /\ UNCHANGED <<call_vars, formatter, generator, command, stripper>>

DeterminismNext ==
  \E c \in CallIds :
    \/ ParseSourceIn(c)
    \/ ModuleDocstringIn(c)
    \/ VisitNodeIn(c)
    \/ StartNullifyIn(c)
    \/ NullifyLineIn(c)
    \/ EndNullifyIn(c)
    \/ SortInsertionsIn(c)
    \/ InsertBlockIn(c)
    \/ JoinLinesIn(c)

DeterminismSpec == DeterminismInit /\ [][DeterminismNext]_vars

----------------------------------------------------------------------------
(* generate_documentation (generator.py): one call.  What the function does *)
(* to the world is kept in events, in order; the collaborators (the OpenAI  *)
(* client, build_messages, the API) answer as they may: each returns or     *)
(* raises.                                                                  *)

\* api_key=None
NoApiKey == "<None>"
ApiKeys == {NoApiKey, "", "sk-test"}
Providers == {"ollama", "openai", "Ollama"}
\* mode: the two the command line offers and one that is neither
Modes == {"rewrite", "inject", "summary"}

\* The message of the AIDocifyError raised when OpenAI(...) raises
ClientFailure(provider) ==
  IF provider = "ollama" THEN "Failed to initialize Ollama client"
  ELSE "Failed to initialize OpenAI client"

\* not api_key
Missing(api_key) == api_key \in {NoApiKey, ""}

\* The call ends by raising AIDocifyError(message)
Raise(g, message) == [g EXCEPT !.pc = "raised", !.error = message]

\* The call goes on to the step named, the events done on the way recorded
GoOn(g, step, done) == [g EXCEPT !.pc = step, !.events = @ \o done]

\* DOCSTRING_TOOL_SCHEMA: the one function the request offers
ToolName == "generate_one_docstring"

\* args.get("name") of arguments without the key
NoName == "<None>"

\* A response has at most MaxToolCalls tool calls
MaxToolCalls == 2

\* message.tool_calls of a response, at most n of them.  A tool call is one
\* of another function, one whose arguments are not JSON, one whose arguments
\* are a JSON list, or a JSON object with "name" and "body" missing, empty or
\* given
RECURSIVE ToolCallSeqs(_)
ToolCallSeqs(n) ==
  LET ToolCalls ==
        { [function |-> "other_tool", json |-> "object", name |-> "f", body |-> RawText("f")],
          [function |-> ToolName, json |-> "invalid", name |-> NoName, body |-> None],
          [function |-> ToolName, json |-> "list", name |-> NoName, body |-> None] }
        \cup UNION { { [function |-> ToolName, json |-> "object", name |-> nm, body |-> b] :
                         b \in {None, <<>>, RawText(nm)} } : nm \in {NoName, "", "f", "g"} }
  IN IF n = 0 THEN {<<>>}
     ELSE LET S == ToolCallSeqs(n - 1)
          IN S \cup { Append(s, tc) : s \in S, tc \in ToolCalls }

\* The three grave accents that close a fenced block, and the opening with
\* the word python after them
Fence == <<"<fence>">>
PythonFence == <<"<fence>python">>
\* lines 46-50: the usage statistics before the response is read
NoUsage == [input_tokens |-> 0, output_tokens |-> 0, reasoning_tokens |-> 0]

\* lines 172-177: an opening and a closing fence are cut off
TrimFences(content) ==
  LET opened == IF StartsWith(content, PythonFence)
                THEN LStrip(From(content, Len(PythonFence) + 1)) ELSE content
  IN IF EndsWith(opened, Fence)
     THEN RStrip(SubSeq(opened, 1, Len(opened) - Len(Fence))) ELSE opened

\* The call ends by returning value
Return(g, value) == [g EXCEPT !.pc = "returned", !.returned = value]

GeneratorInit ==
  /\ generator \in { [pc |-> "client", provider |-> provider, api_key |-> key, mode |-> mode,
                       file_content |-> content, events |-> <<>>, error |-> "",
                       returned |-> <<>>, usage |-> NoUsage, tool_calls |-> <<>>,
                       next_call |-> 1, docstring_map |-> <<>>, injected |-> <<>>] :
                       provider \in Providers, key \in ApiKeys, mode \in Modes,
                       content \in {DefFDoc \o DefG, DefFInline} }
  /\ CallIdle
  /\ calls = Idle
  /\ formatter = Idle
  /\ command = Idle
  /\ stripper = Idle

\* InitClient gone wrong: 'if api_key is None' in place of 'if not api_key'
InitClient_KeyNotNone ==
  /\ generator.pc = "client"
  /\ \E created \in BOOLEAN :
       generator' =
         IF generator.provider # "ollama" /\ generator.api_key = NoApiKey
         THEN Raise(generator, "API key is required for OpenAI")
         ELSE IF created THEN GoOn(generator, "messages", <<"client created">>)
         ELSE Raise(generator, ClientFailure(generator.provider))
  /\ UNCHANGED <<call_vars, calls, formatter, command, stripper>>

\* lines 91-112: the client; OpenAI(...) returns or raises
InitClient ==
  /\ generator.pc = "client"
  /\ \E created \in BOOLEAN :
       generator' =
         IF generator.provider # "ollama" /\ Missing(generator.api_key)
         THEN Raise(generator, "API key is required for OpenAI")
         ELSE IF created THEN GoOn(generator, "messages", <<"client created">>)
         ELSE Raise(generator, ClientFailure(generator.provider))
  /\ UNCHANGED <<call_vars, calls, formatter, command, stripper>>

\* lines 114-121: build_messages loads the template, or raises
BuildMessages ==
  /\ generator.pc = "messages"
  /\ \E outcome \in {"built", "FileNotFoundError", "Exception"} :
       generator' =
         IF outcome = "built" THEN GoOn(generator, "request", <<"template loaded">>)
         ELSE IF outcome = "FileNotFoundError" THEN Raise(generator, "Failed to load template")
         ELSE Raise(generator, "Error building messages")
  /\ UNCHANGED <<call_vars, calls, formatter, command, stripper>>

\* lines 124-143: the request; client.chat.completions.create returns or raises
SendRequest ==
  /\ generator.pc = "request"
  /\ \E outcome \in {"response", "OpenAIError", "Exception"} :
       generator' =
         IF outcome = "response" THEN GoOn(generator, "response", <<"request sent">>)
         ELSE IF outcome = "OpenAIError"
           THEN Raise(GoOn(generator, "request", <<"request sent">>), "API error")
         ELSE Raise(GoOn(generator, "request", <<"request sent">>),
                    "Unexpected error during API call")
  /\ UNCHANGED <<call_vars, calls, formatter, command, stripper>>

\* lines 146-193: usage (the counts are copied where the response has them),
\* then the response as the mode reads it: message.content in rewrite mode
\* (none, code, code in a fence), message.tool_calls in inject mode; a mode
\* that is neither comes to the end of the function
HandleResponse ==
  /\ generator.pc = "response"
  /\ \E counted \in BOOLEAN, shape \in {"no choices", "no message", "message"} :
       LET g == IF counted
                THEN [generator EXCEPT !.usage.input_tokens = 10,
                                       !.usage.output_tokens = 20,
                                       !.usage.reasoning_tokens = 5]
                ELSE generator
       IN IF generator.mode \in {"rewrite", "inject"} /\ shape = "no choices"
            THEN generator' = Raise(g, "Unexpected error")
          ELSE IF generator.mode = "rewrite"
            THEN \E content \in {<<>>, DefFDoc, PythonFence \o <<NL>> \o DefFDoc \o Fence,
                                  PythonFence \o <<NL>> \o DefG, DefG \o Fence \o <<NL>>} :
                   generator' =
                     IF shape = "no message" \/ content = <<>>
                     THEN Raise(g, "Invalid API response: missing message content")
                     ELSE Return(g, <<TrimFences(content), g.usage>>)
          ELSE IF generator.mode = "inject"
            THEN \E tool_calls \in ToolCallSeqs(MaxToolCalls) :
                   generator' =
                     IF shape = "no message"
                     THEN Raise(g, "Invalid API response: missing message")
                     ELSE IF tool_calls = <<>>
                     THEN Raise(g, "Model did not return any valid tool calls")
                     ELSE [g EXCEPT !.pc = "tool calls", !.tool_calls = tool_calls]
          ELSE generator' = Return(g, None)
  /\ UNCHANGED <<call_vars, calls, formatter, command, stripper>>

\* lines 196-219: one turn of the loop
ReadToolCall(g, tool_call) ==
  IF tool_call.function # ToolName THEN g
  ELSE IF tool_call.json = "invalid" THEN Raise(g, "Failed to decode AI JSON response")
  ELSE IF tool_call.json # "object" THEN Raise(g, "Malformed tool call arguments")
  ELSE IF tool_call.name \in {NoName, ""} THEN g
  ELSE IF tool_call.body \in {None, <<>>} THEN g
  ELSE [g EXCEPT !.docstring_map =
                   [key \in DOMAIN @ \cup {tool_call.name} |->
                      IF key = tool_call.name THEN tool_call.body ELSE @[key]]]

\* lines 195-219: the loop takes the next tool call
NextToolCall ==
  /\ generator.pc = "tool calls"
  /\ generator.next_call <= Len(generator.tool_calls)
  /\ generator' = ReadToolCall([generator EXCEPT !.next_call = @ + 1],
                               generator.tool_calls[generator.next_call])
  /\ UNCHANGED <<call_vars, calls, formatter, command, stripper>>

\* InsertDocstrings gone wrong: no check of the map before the injector
InsertDocstrings_Unchecked(g) ==
  LET called == [g EXCEPT !.injected = Append(@, g.docstring_map),
                          !.events = Append(@, "insert_docstrings_to_source")]
  IN Return(called, <<RunAlone(g.file_content, g.docstring_map).result, g.usage>>)

\* lines 221-234, 247-249: after the loop, the injector is called with the
\* map, unless the map is empty
InsertDocstrings(g) ==
  IF DOMAIN g.docstring_map = {}
  THEN Raise(g, "Unexpected error in inject mode: No valid docstrings were generated")
  ELSE LET called == [g EXCEPT !.injected = Append(@, g.docstring_map),
                               !.events = Append(@, "insert_docstrings_to_source")]
       IN Return(called, <<RunAlone(g.file_content, g.docstring_map).result, g.usage>>)

\* lines 221-234: the loop is over
InjectDocstrings ==
  /\ generator.pc = "tool calls"
  /\ generator.next_call > Len(generator.tool_calls)
  /\ generator' = InsertDocstrings(generator)
  /\ UNCHANGED <<call_vars, calls, formatter, command, stripper>>

GeneratorNext ==
  \/ InitClient
  \/ BuildMessages
  \/ SendRequest
  \/ HandleResponse
  \/ NextToolCall
  \/ InjectDocstrings

GeneratorSpec == GeneratorInit /\ [][GeneratorNext]_vars

----------------------------------------------------------------------------
(* The generate command (cli.py, generate): one run.  log holds, in order,  *)
(* what the run printed and what it did to the world (prompts, the call of  *)
(* generate_documentation, the output file).  The collaborators answer as   *)
(* they may: validate_model says yes or no, read_file, estimate_cost,       *)
(* generate_documentation and write_output_file return or raise, the user   *)
(* confirms or declines, OPENAI_API_KEY is set or not.  exit_code is read   *)
(* once pc = "exited".                                                      *)

CommandProviders == {"openai", "ollama"}
CommandModes == {"rewrite", "inject"}

CommandInit ==
  /\ command \in { [pc |-> "mode", yes |-> yes, check |-> check, function |-> function,
                     mode |-> mode, provider |-> provider, effective_mode |-> mode,
                     log |-> <<>>, exit_code |-> 0] :
                     yes \in BOOLEAN, check \in BOOLEAN, function \in BOOLEAN,
                     mode \in CommandModes, provider \in CommandProviders }
  /\ CallIdle
  /\ calls = Idle
  /\ formatter = Idle
  /\ generator = Idle
  /\ stripper = Idle

\* The run goes on to the step named, having logged the events
Proceed(step, events) ==
  /\ command' = [command EXCEPT !.pc = step, !.log = @ \o events]
  /\ UNCHANGED <<call_vars, calls, formatter, generator, stripper>>

\* The run ends (return: code 0; sys.exit(code)), having logged the events
Exit(code, events) ==
  /\ command' = [command EXCEPT !.pc = "exited", !.log = @ \o events, !.exit_code = code]
  /\ UNCHANGED <<call_vars, calls, formatter, generator, stripper>>

\* lines 344-350
SetEffectiveMode ==
  /\ command.pc = "mode"
  /\ command' = [command EXCEPT
                   !.pc = "validate",
                   !.effective_mode = IF command.function THEN "inject" ELSE command.mode,
                   !.log = IF command.function /\ command.mode = "rewrite" /\ ~command.check
                           THEN @ \o <<"Info: Switched to 'inject' mode">> ELSE @]
  /\ UNCHANGED <<call_vars, calls, formatter, generator, stripper>>

\* lines 354-366
ValidateConfiguration ==
  /\ command.pc = "validate"
  /\ \E valid \in BOOLEAN :
       IF ~valid THEN Exit(1, <<"Error: Model is not configured">>)
       ELSE Proceed("read", IF command.check THEN <<>> ELSE <<"Checking">>)

\* lines 369-373
ReadFile ==
  /\ command.pc = "read"
  /\ \E readable \in BOOLEAN :
       IF readable THEN Proceed("estimate", <<>>)
       ELSE Exit(1, <<"Error reading file">>)

\* lines 376-393: estimate_cost returns or raises; what it raises is caught
\* by 'except Exception', sys.exit(0) is not
EstimateCost ==
  /\ command.pc = "estimate"
  /\ \E estimated \in BOOLEAN :
       IF estimated
       THEN IF command.check THEN Exit(0, <<"estimate as JSON">>)
            ELSE Proceed("confirm", <<"Estimation">>)
       ELSE Proceed(IF command.yes THEN "confirm" ELSE "confirm after warning",
                    <<"Warning: Could not estimate cost">>)

\* lines 394-397
ConfirmAfterWarning ==
  /\ command.pc = "confirm after warning"
  /\ \E confirmed \in BOOLEAN :
       IF confirmed THEN Proceed("confirm", <<"prompt_confirmation", "user confirmed">>)
       ELSE Exit(0, <<"prompt_confirmation", "user declined", "Aborted by user.">>)

\* Confirm gone wrong: the answer of the user is not read
Confirm_AnswerNotRead ==
  /\ command.pc = "confirm"
  /\ IF command.yes THEN Proceed("api key", <<>>)
     ELSE \E confirmed \in BOOLEAN :
            Proceed("api key",
                    <<"prompt_confirmation",
                      IF confirmed THEN "user confirmed" ELSE "user declined">>)

\* lines 400-403
Confirm ==
  /\ command.pc = "confirm"
  /\ IF command.yes THEN Proceed("api key", <<>>)
     ELSE \E confirmed \in BOOLEAN :
            IF confirmed THEN Proceed("api key", <<"prompt_confirmation", "user confirmed">>)
            ELSE Exit(0, <<"prompt_confirmation", "user declined", "Aborted by user.">>)

\* lines 407-414
GetApiKey ==
  /\ command.pc = "api key"
  /\ \E key_set \in BOOLEAN :
       IF command.provider = "openai" /\ ~key_set
       THEN Exit(1, <<"Error: OPENAI_API_KEY environment variable is not set.">>)
       ELSE Proceed("generate", <<>>)

\* GenerateDocumentation gone wrong: the error is printed and the run goes on
GenerateDocumentation_NoExit ==
  /\ command.pc = "generate"
  /\ \E outcome \in {"returned", "AIDocifyError", "Exception"} :
       IF outcome = "returned"
       THEN Proceed("write", <<"generate_documentation", "generation succeeded">>)
       ELSE Proceed("write", <<"generate_documentation", "generation failed",
                               "Error generating documentation">>)

\* lines 416-432 and 451-453: generate_documentation returns or raises
GenerateDocumentation ==
  /\ command.pc = "generate"
  /\ \E outcome \in {"returned", "AIDocifyError", "Exception"} :
       IF outcome = "returned"
       THEN Proceed("write", <<"generate_documentation", "generation succeeded">>)
       ELSE IF outcome = "AIDocifyError"
       THEN Exit(1, <<"generate_documentation", "generation failed",
                      "Error generating documentation">>)
       ELSE Exit(1, <<"generate_documentation", "generation failed",
                      "An unexpected error occurred in the CLI">>)

\* lines 435-446
WriteOutput ==
  /\ command.pc = "write"
  /\ \E written \in BOOLEAN :
       IF written
       THEN Proceed("report", <<"output file written",
                                "Successfully generated documentation!">>)
       ELSE Exit(1, <<"Error writing output file">>)

\* line 449 and 171-202: the report, or a warning where get_model_price raises
FinalUsageReport ==
  /\ command.pc = "report"
  /\ \E reported \in BOOLEAN :
       IF reported THEN Exit(0, <<"Final Usage Report">>)
       ELSE Exit(0, <<"Warning: Could not generate usage report">>)

CommandNext ==
  \/ SetEffectiveMode
  \/ ValidateConfiguration
  \/ ReadFile
  \/ EstimateCost
  \/ ConfirmAfterWarning
  \/ Confirm
  \/ GetApiKey
  \/ GenerateDocumentation
  \/ WriteOutput
  \/ FinalUsageReport

CommandSpec == CommandInit /\ [][CommandNext]_vars

----------------------------------------------------------------------------
(* strip_docstrings (stripper.py): one call.  ast.parse, then               *)
(* DocstringStripper.visit, which goes through the tree as NodeTransformer  *)
(* does (a node, then its children in order: the Module, then the           *)
(* definitions in source order), then astunparse.unparse on what is left.   *)

\* Two string statements at the head of a body, and a body that is its
\* docstring and nothing else
DocB        == DQ3 \o <<"b">> \o DQ3
DefFTwoDocs == Ln(0, <<"def f():">>) \o Ln(4, DocA) \o Ln(4, DocB) \o Ln(4, <<"pass">>)
DefGOnlyDoc == Ln(0, <<"def g():">>) \o Ln(4, DocA)

StripperChunks == Chunks \cup {DefFTwoDocs, DefGOnlyDoc}

RECURSIVE StripperChunkSeqs(_)
StripperChunkSeqs(n) ==
  IF n = 0 THEN {<<>>}
  ELSE LET S == StripperChunkSeqs(n - 1)
       IN S \cup { Append(s, c) : s \in S, c \in StripperChunks }

StripperSources == { Join(cs) : cs \in StripperChunkSeqs(MaxChunks) }

Definitions == {"FunctionDef", "AsyncFunctionDef", "ClassDef"}

\* The nodes the stripper has a visit_ method for, in the order visit reaches
\* them: the Module (0), then every definition, parents before children
RECURSIVE DefinitionsFrom(_, _)
DefinitionsFrom(t, i) ==
  IF i > Len(t.stmts) THEN <<>>
  ELSE IF t.stmts[i].kind \in Definitions THEN <<i>> \o DefinitionsFrom(t, i + 1)
  ELSE DefinitionsFrom(t, i + 1)
VisitOrder(t) == <<0>> \o DefinitionsFrom(t, 1)

\* The parent of a statement that is in no body any more
Detached == -1

\* _remove_docstring_expr(node): node.body = node.body[1:] if node.body[0] is
\* an Expr whose value is a Constant holding a str
RemoveDocstringExpr(t, n) ==
  LET body == Body(t, n)
  IN IF body # <<>> /\ t.stmts[body[1]].kind = "Str"
     THEN [t EXCEPT !.stmts[body[1]].parent = Detached]
     ELSE t

KindOf(t, n) == IF n = 0 THEN "Module" ELSE t.stmts[n].kind

\* The value of the string statement s of the source with these lines (the
\* text between its quotes)
StrValue(ls, s) ==
  LET L == From(ls[s.lineno], s.col_offset + 1)
             \o Join(SubSeq(ls, s.lineno + 1, s.end_lineno))
  IN IF StartsWith(L, DQ3) THEN SubSeq(L, 4, FindQ3(L, 4) - 1)
     ELSE SubSeq(L, 2, FindSQ(L, 2) - 1)

\* repr(value) of a str without quotes in it
RECURSIVE Escaped(_)
Escaped(v) ==
  IF v = <<>> THEN <<>>
  ELSE (IF v[1] = NL THEN <<"\\", "n">> ELSE <<v[1]>>) \o Escaped(Tail(v))
Repr(v) == <<SQ>> \o Escaped(v) \o <<SQ>>

\* What astunparse writes for the head of a definition
UnparsedHeader(s) ==
  IF s.kind = "ClassDef" THEN "class " \o s.name \o "():"
  ELSE IF s.kind = "AsyncFunctionDef" THEN "async def " \o s.name \o "():"
  ELSE "def " \o s.name \o "():"

\* Unparser.fill(text): a new line, the indentation, the text
Fill(level, text) == <<NL>> \o Spaces(4 * level) \o text

\* astunparse's Unparser on the statements body[i..] at this indentation level
RECURSIVE UnparseBody(_, _, _, _, _)
UnparseStmt(t, ls, n, level) ==
  LET s == t.stmts[n]
  IN IF s.kind = "Pass" THEN Fill(level, <<"pass">>)
     ELSE IF s.kind = "Num" THEN Fill(level, <<"42">>)
     ELSE IF s.kind = "Str" THEN Fill(level, Repr(StrValue(ls, s)))
     ELSE <<NL>> \o Fill(level, <<UnparsedHeader(s)>>)
            \o UnparseBody(t, ls, Body(t, n), 1, level + 1)
UnparseBody(t, ls, body, i, level) ==
  IF i > Len(body) THEN <<>>
  ELSE UnparseStmt(t, ls, body[i], level) \o UnparseBody(t, ls, body, i + 1, level)

\* astunparse.unparse(tree) of a tree parsed from source_code
Unparse(t, source_code) ==
  UnparseBody(t, SplitLines(source_code, <<>>), Body(t, 0), 1, 0) \o <<NL>>

StripperInit ==
  /\ stripper \in { [pc |-> "start", source_code |-> src, tree |-> NoTree,
                      todo |-> <<>>, result |-> None] : src \in StripperSources }
  /\ CallIdle
  /\ calls = Idle
  /\ formatter = Idle
  /\ generator = Idle
  /\ command = Idle

StripperUnchanged == UNCHANGED <<call_vars, calls, formatter, generator, command>>

\* tree = ast.parse(source_code); a SyntaxError leaves the function
ParseTree ==
  /\ stripper.pc = "start"
  /\ LET t == Parse(stripper.source_code)
     IN stripper' = IF t.ok
                    THEN [stripper EXCEPT !.pc = "visit", !.tree = t, !.todo = VisitOrder(t)]
                    ELSE [stripper EXCEPT !.pc = "raised"]
  /\ StripperUnchanged

\* visit has reached a node of this kind
Visiting(kind) ==
  /\ stripper.pc = "visit"
  /\ stripper.todo # <<>>
  /\ KindOf(stripper.tree, Head(stripper.todo)) = kind

\* _remove_docstring_expr(node), then generic_visit(node): on to the children
RemoveAndGoOn ==
  /\ stripper' = [stripper EXCEPT
                    !.tree = RemoveDocstringExpr(stripper.tree, Head(stripper.todo)),
                    !.todo = Tail(stripper.todo)]
  /\ StripperUnchanged

visit_Module == Visiting("Module") /\ RemoveAndGoOn
visit_FunctionDef == Visiting("FunctionDef") /\ RemoveAndGoOn
visit_AsyncFunctionDef == Visiting("AsyncFunctionDef") /\ RemoveAndGoOn
visit_ClassDef == Visiting("ClassDef") /\ RemoveAndGoOn

\* return astunparse.unparse(stripped_tree)
UnparseTree ==
  /\ stripper.pc = "visit"
  /\ stripper.todo = <<>>
  /\ stripper' = [stripper EXCEPT
                    !.pc = "done",
                    !.result = Unparse(stripper.tree, stripper.source_code)]
  /\ StripperUnchanged

StripperNext ==
  \/ ParseTree
  \/ visit_Module
  \/ visit_FunctionDef
  \/ visit_AsyncFunctionDef
  \/ visit_ClassDef
  \/ UnparseTree

StripperSpec == StripperInit /\ [][StripperNext]_vars

----------------------------------------------------------------------------
(* What the claims speak of *)

\* The call has parsed the source / has returned
Parsed == pc # "start"
Returned == pc = "done"

\* The tree ast.parse gave the call for original_source (read where Parsed)
SourceTree == tree
Parseable == Parsed /\ SourceTree.ok
SourceLines == SplitLines(original_source, <<>>)

\* The block the map holds for the module / for definition node n
ModuleBlock == clean_docstring(docstring_map["__module__"], 0)
BlockOf(n) ==
  clean_docstring(docstring_map[SourceTree.stmts[n].name],
                  SourceTree.stmts[n].col_offset + 4)

\* Definition nodes of a kind whose name is a key of the map
Named(kind) ==
  { n \in 1 .. Len(SourceTree.stmts) :
      /\ SourceTree.stmts[n].kind = kind
      /\ SourceTree.stmts[n].name \in DOMAIN docstring_map }

\* The first body statement of node n (0 = the Module), 0 if the body is empty
FirstStmt(n) ==
  LET body == Body(SourceTree, n) IN IF body = <<>> THEN 0 ELSE body[1]

\* 0-based line indices of the bare string literal that opens the body of n
StringDocSpan(n) ==
  LET s == FirstStmt(n)
  IN IF s # 0 /\ SourceTree.stmts[s].kind = "Str"
     THEN (SourceTree.stmts[s].lineno - 1) .. (SourceTree.stmts[s].end_lineno - 1)
     ELSE {}

\* Where the original line of 0-based index i stands (1-based) in the buffer
\* once every insertion is made
PosAfter(i) ==
  i + 1 + Cardinality({ j \in DOMAIN insertions : insertions[j][1] <= i })

\* n's block stands in the final buffer right before the line (or its
\* tombstone) that holds n's first body statement
BlockBeforeFirstLine(n) ==
  LET i == SourceTree.stmts[FirstStmt(n)].lineno - 1
  IN /\ PosAfter(i) <= Len(lines)
     /\ PosAfter(i) > 1
     /\ lines[PosAfter(i) - 1] = BlockOf(n)
     /\ lines[PosAfter(i)] \in {SourceLines[i + 1], None}

\* Exactly one insertion is planned for n: at its first statement's line, at
\* indent col_offset + 4
PlannedOnce(n) ==
  Cardinality({ j \in DOMAIN insertions :
                  insertions[j] = <<SourceTree.stmts[FirstStmt(n)].lineno - 1, BlockOf(n)>> }) = 1

\* a is a subsequence of b
RECURSIVE IsSubseq(_, _)
IsSubseq(a, b) ==
  IF a = <<>> THEN TRUE
  ELSE IF b = <<>> THEN FALSE
  ELSE IF Head(a) = Head(b) THEN IsSubseq(Tail(a), Tail(b))
  ELSE IsSubseq(a, Tail(b))

\* Entries of the final buffer that are original lines: not tombstones, not
\* inserted blocks (a block holds several line ends, a line at most one)
BlockTexts == { insertions[j][2] : j \in DOMAIN insertions }
IsOriginalEntry(e) == e # None /\ e \notin BlockTexts
KeptLines == SelectSeq(lines, IsOriginalEntry)

----------------------------------------------------------------------------
\* C1: when the source does not parse, the call returns the original text
\* unchanged, whatever the map holds ("__module__" included), and plans no
\* deletion and no insertion.
C1_ParseFailurePassthrough ==
  (Parsed /\ ~Parseable) =>
    /\ Returned
    /\ result = original_source
    /\ lines_to_delete = {}
    /\ insertions = <<>>

C1_Witness ==
  /\ Returned
  /\ ~Parseable
  /\ original_source # <<>>
  /\ "__module__" \in DOMAIN docstring_map
  /\ "f" \in DOMAIN docstring_map
  /\ result = original_source

\* Line i (0-based) holds nothing but (part of) the docstring literal of a
\* symbol the map names
LiteralOnly(i) ==
  \E s \in 1 .. Len(SourceTree.stmts) :
    LET st == SourceTree.stmts[s]
        owner == st.parent
    IN /\ st.kind = "Str"
       /\ FirstStmt(owner) = s
       /\ IF owner = 0 THEN "__module__" \in DOMAIN docstring_map
          ELSE SourceTree.stmts[owner].name \in DOMAIN docstring_map
       /\ i \in (st.lineno - 1) .. (st.end_lineno - 1)
       /\ \A j \in 1 .. Len(SourceTree.stmts) :
            j # s => /\ SourceTree.stmts[j].lineno - 1 # i
                     /\ SourceTree.stmts[j].end_lineno - 1 # i

\* C2: every line of a parseable input that is not wholly (part of) the
\* docstring literal of a symbol the map names is in the output, unchanged and
\* in order, and whatever else the output holds is an inserted block.
C2_ByteFidelity ==
  (Returned /\ Parseable) =>
    /\ IsSubseq(WithoutLines(SourceLines,
                             { i \in 0 .. Len(SourceLines) - 1 : LiteralOnly(i) }, 1),
                KeptLines)
    /\ IsSubseq(KeptLines, SourceLines)
    /\ result = Join(SelectSeq(lines, NotNone))

\* The text is one bare string-literal statement
IsDocstringStatement(text) ==
  LET t == Parse(text)
  IN t.ok /\ Len(t.stmts) = 1 /\ t.stmts[1].kind = "Str"

BlocksWellFormed ==
  \A key \in DOMAIN docstring_map :
    IsDocstringStatement(clean_docstring(docstring_map[key], 0))

\* C3: when the source parses and every block of the map is a well-formed
\* docstring statement, the returned text parses.
C3_OutputParses ==
  (Returned /\ Parseable /\ BlocksWellFormed) => Parse(result).ok

\* C4: when "__module__" is a key and the source parses, the output begins
\* with the module block at indent 0, ahead of every other block and of all
\* original content.
C4_ModuleBlockFirst ==
  (Returned /\ Parseable /\ "__module__" \in DOMAIN docstring_map) =>
    /\ StartsWith(result, ModuleBlock)
    /\ Head(SelectSeq(lines, NotNone)) = ModuleBlock

\* C5: every function whose name is a key gets exactly one block, formatted at
\* col_offset + 4 and planned at the line index of its first body statement,
\* and in the output the block stands immediately before that statement: right
\* before the statement's line, which the statement begins.
C5_FunctionInsertion ==
  (Returned /\ Parseable) =>
    \A n \in Named("FunctionDef") :
      /\ PlannedOnce(n)
      /\ BlockBeforeFirstLine(n)
      /\ SourceTree.stmts[FirstStmt(n)].lineno > SourceTree.stmts[n].lineno

\* Lines the code deletes for the functions the map names
FunctionDocLines ==
  UNION { OldDocLines(SourceTree, n) : n \in Named("FunctionDef") }

\* C6: with "__module__" a key and the module opening with a bare string
\* literal on lines [s, e], the module step marks exactly those lines and
\* plans the new block at index 0; in the output the lines s..e are gone and
\* every later line is in place, but for the old docstrings of functions the
\* map names too; where it names none, the output is the new block followed
\* by every line outside [s, e], untouched.
C6_ModuleReplacement ==
  (Parseable /\ "__module__" \in DOMAIN docstring_map /\ StringDocSpan(0) # {}) =>
    /\ (pc = "walk" /\ todo = Walk(tree)) =>
         /\ lines_to_delete = StringDocSpan(0)
         /\ insertions = << <<0, ModuleBlock>> >>
    /\ Returned =>
         \A i \in 0 .. Len(SourceLines) - 1 :
           /\ i \in StringDocSpan(0) => lines[PosAfter(i)] = None
           /\ (i \notin StringDocSpan(0) /\ i \notin FunctionDocLines) =>
                lines[PosAfter(i)] = SourceLines[i + 1]
    /\ (Returned /\ Named("FunctionDef") = {}) =>
         result = ModuleBlock \o Join(WithoutLines(SourceLines, StringDocSpan(0), 1))

C6_Witness ==
  /\ Returned
  /\ original_source = ModDoc \o BlankDefF
  /\ DOMAIN docstring_map = {"__module__"}
  /\ Cardinality(StringDocSpan(0)) = 2
  /\ result = ModuleBlock \o BlankDefF

\* n is edited the way the code edits a function: its leading docstring is
\* marked for deletion and its block is planned and put before its first line
EditedAsFunction(n) ==
  /\ OldDocLines(SourceTree, n) \subseteq lines_to_delete
  /\ PlannedOnce(n)
  /\ BlockBeforeFirstLine(n)

\* C7: every class whose name is a key of the map is edited as a function is.
C7_ClassesAddressed ==
  (Returned /\ Parseable) => \A n \in Named("ClassDef") : EditedAsFunction(n)

\* C8: every async function whose name is a key of the map is edited as a
\* synchronous function is.
C8_AsyncAddressed ==
  (Returned /\ Parseable) => \A n \in Named("AsyncFunctionDef") : EditedAsFunction(n)

\* Lines of the docstring literals of the symbols the map names
AddressedDocLines ==
  UNION { StringDocSpan(n) : n \in Named("FunctionDef") }
    \cup (IF "__module__" \in DOMAIN docstring_map THEN StringDocSpan(0) ELSE {})

\* C9: when the map names two or more distinct functions of the source, each
\* block stands right before its own function's first line, and every line
\* outside the addressed docstrings is still in place: no edit made for one
\* symbol displaces or drops what belongs to another.
C9_BatchNonInterference ==
  (/\ Returned
   /\ Parseable
   /\ Cardinality({ SourceTree.stmts[n].name : n \in Named("FunctionDef") }) >= 2) =>
    /\ \A n \in Named("FunctionDef") : BlockBeforeFirstLine(n)
    /\ \A i \in 0 .. Len(SourceLines) - 1 :
         i \notin AddressedDocLines => lines[PosAfter(i)] = SourceLines[i + 1]

\* C10: with an empty map, a parseable source is returned unchanged.
C10_EmptyMapNoOp ==
  (Returned /\ Parseable /\ DOMAIN docstring_map = {}) => result = original_source

C10_Witness ==
  /\ Returned
  /\ Parseable
  /\ DOMAIN docstring_map = {}
  /\ original_source = ModDoc \o DefFDoc
  /\ result = original_source

\* What the one call of the specification holds, as a value
ThisCall ==
  [original_source |-> original_source, docstring_map |-> docstring_map, pc |-> pc,
   lines |-> lines, tree |-> tree, lines_to_delete |-> lines_to_delete,
   insertions |-> insertions, todo |-> todo, k |-> k, result |-> result]

\* Names of the symbol nodes (functions, async functions, classes) of the tree
SymbolNames ==
  { SourceTree.stmts[n].name :
      n \in { i \in 1 .. Len(SourceTree.stmts) :
                SourceTree.stmts[i].kind \in {"FunctionDef", "AsyncFunctionDef", "ClassDef"} } }

\* Keys of the map that are neither "__module__" nor the name of a symbol node
UnmatchedKeys == (DOMAIN docstring_map \ {"__module__"}) \ SymbolNames

\* The map with one key removed
MapWithout(key) == [x \in DOMAIN docstring_map \ {key} |-> docstring_map[x]]

\* C11: a key of the map that is neither "__module__" nor the name of a symbol
\* node of the source causes no deletion, no insertion and no error: the call
\* returns, and with the deletions, insertions and text of the call made with
\* that key removed from the map.
C11_UnmatchedKeysIgnored ==
  (Returned /\ Parseable) =>
    \A key \in UnmatchedKeys :
      LET without == RunAlone(original_source, MapWithout(key))
      IN /\ result # None
         /\ result = without.result
         /\ lines_to_delete = without.lines_to_delete
         /\ insertions = without.insertions

C11_Witness ==
  /\ Returned
  /\ Parseable
  /\ original_source = ModDoc \o DefFDoc
  /\ DOMAIN docstring_map = {"__module__", "f", "g"}
  /\ UnmatchedKeys = {"g"}
  /\ result # original_source

\* The walk is over / is under way or over
WalkStarted == pc \in {"walk", "sort", "insert", "done"} /\ Parseable
WalkOver == pc \in {"sort", "insert", "done"} /\ Parseable

\* Nodes the loop over ast.walk(tree) has been through
Visited ==
  IF pc = "walk"
  THEN { n \in 0 .. Len(SourceTree.stmts) : \A j \in DOMAIN todo : todo[j] # n }
  ELSE 0 .. Len(SourceTree.stmts)

\* How many insertions are planned at n's first statement with n's block
PlannedFor(n) ==
  Cardinality({ j \in DOMAIN insertions :
                  insertions[j] = <<SourceTree.stmts[FirstStmt(n)].lineno - 1, BlockOf(n)>> })

\* Insertions planned by the loop over the nodes (all but the module's)
FunctionInsertions ==
  Len(insertions) - (IF "__module__" \in DOMAIN docstring_map THEN 1 ELSE 0)

BothFormatted == formatter.plain # None /\ formatter.wrapped # None

\* The raw text, stripped, is itself inside a pair of triple quotes
InnerWrapped ==
  \/ Unwrapped(Strip(formatter.raw_text), DQ3)
  \/ Unwrapped(Strip(formatter.raw_text), SQ3)

\* C13: for every inner text t, indent n and triple-quote delimiter q,
\* clean_docstring(q + t + q, n) equals clean_docstring(t, n).
C13_QuoteStrippingIdempotence ==
  BothFormatted => formatter.wrapped = formatter.plain

\* C13 as amended: the same, for every inner text that, stripped, is not
\* itself inside a pair of triple quotes (of which the formatter takes off
\* exactly one layer).
C13_OneLayerStripped ==
  (BothFormatted /\ ~InnerWrapped) => formatter.wrapped = formatter.plain

C13_Witness ==
  /\ BothFormatted
  /\ formatter.raw_text = <<SP, "a", NL>>
  /\ formatter.delimiter = SQ3
  /\ formatter.indent_level = 4
  /\ formatter.wrapped = formatter.plain
  /\ formatter.plain = Ln(4, DQ3) \o Ln(4, <<"a">>) \o Ln(4, DQ3)

\* Call c has returned the text it returns when it runs alone
ReturnsAsAlone(c) ==
  calls[c].pc = "done" =>
    calls[c].result = RunAlone(calls[c].original_source, calls[c].docstring_map).result

\* A step leaves the text and the map every call was given as they were
ArgumentsKept ==
  \A c \in CallIds :
    /\ calls'[c].original_source = calls[c].original_source
    /\ calls'[c].docstring_map = calls[c].docstring_map

\* C14: under every interleaving of the steps of two concurrent calls each
\* call returns the text it returns when it runs alone, and no step of a call
\* changes the source text or the map a caller passed.
C14_Reentrancy ==
  /\ [](\A c \in CallIds : ReturnsAsAlone(c))
  /\ [][ArgumentsKept]_vars

C14_Witness ==
  /\ calls[1].pc = "done"
  /\ calls[1].original_source = DefFDoc
  /\ calls[1].result # calls[1].original_source
  /\ calls[1].result = RunAlone(DefFDoc, calls[1].docstring_map).result
  /\ calls[2].pc = "sort"
  /\ calls[2].original_source = DefGNested
  /\ Len(calls[2].insertions) = 3

\* The event is among those the call of generate_documentation has done
Did(event) == \E i \in DOMAIN generator.events : generator.events[i] = event

\* The call has ended, by return or by raising
GeneratorEnded == generator.pc \in {"returned", "raised"}

\* C15: generate_documentation called with a provider other than "ollama" and
\* an absent or empty api_key raises AIDocifyError("API key is required for
\* OpenAI") at its first step, no client created, no template loaded and no
\* request sent, then or at any point of the call; with provider "ollama" the
\* error is never raised, whatever the key.
C15_MissingApiKeyRejected ==
  /\ (generator.provider # "ollama" /\ Missing(generator.api_key)) =>
       /\ generator.pc \in {"client", "raised"}
       /\ generator.pc = "raised" => generator.error = "API key is required for OpenAI"
       /\ generator.events = <<>>
  /\ (generator.provider = "ollama" /\ generator.pc # "client") =>
       /\ generator.error # "API key is required for OpenAI"
       /\ generator.error # ClientFailure("ollama") => Did("client created")

C15_Witness ==
  /\ generator.pc = "raised"
  /\ generator.provider = "openai"
  /\ generator.api_key = ""
  /\ generator.error = "API key is required for OpenAI"
  /\ ~Did("client created")

\* Places of an event in the log of the run, and whether it is there
Places(event) == { i \in DOMAIN command.log : command.log[i] = event }
Logged(event) == Places(event) # {}

\* Every occurrence of the event comes after an occurrence of the earlier one
OnlyAfter(event, earlier) ==
  \A i \in Places(event) : \E j \in Places(earlier) : j < i

\* The run is over
Exited == command.pc = "exited"

\* C16: in a run with --yes the confirmation prompt is never shown; in a run
\* without --yes the user is prompted at most once, and exactly once, before
\* the call, in a run that calls generate_documentation.
C16_PromptCount ==
  /\ command.yes => ~Logged("prompt_confirmation")
  /\ ~command.yes =>
       /\ Cardinality(Places("prompt_confirmation")) <= 1
       /\ Logged("generate_documentation") =>
            /\ Cardinality(Places("prompt_confirmation")) = 1
            /\ OnlyAfter("generate_documentation", "prompt_confirmation")

\* C17: once the user has declined the confirmation prompt, the run is over
\* with exit code 0 and "Aborted by user" printed, generate_documentation
\* was not called and no output file was written.
C17_AbortSideEffectFree ==
  Logged("user declined") =>
    /\ Exited
    /\ command.exit_code = 0
    /\ Logged("Aborted by user.")
    /\ ~Logged("generate_documentation")
    /\ ~Logged("output file written")

C17_Witness ==
  /\ Exited
  /\ ~command.yes
  /\ ~command.check
  /\ command.log = <<"Checking", "Estimation", "prompt_confirmation", "user declined",
                      "Aborted by user.">>
  /\ command.exit_code = 0

\* C18: in a run with --check the user is never prompted,
\* generate_documentation is never called and no output file is written; the
\* run goes no further than the estimate, which it prints as JSON before it
\* exits with code 0.
C18_CheckOnlyEstimates ==
  command.check =>
    /\ ~Logged("prompt_confirmation")
    /\ ~Logged("generate_documentation")
    /\ ~Logged("output file written")
    /\ command.pc \in {"mode", "validate", "read", "estimate", "exited"}
    /\ (Exited /\ command.exit_code = 0) => Logged("estimate as JSON")

Stripped == stripper.pc = "done"
StrippedOutput == Parse(stripper.result)

\* The Module (0) and the definitions of t whose body begins with a bare
\* string-literal statement
LeadingStrings(t) ==
  { n \in {0} \cup { i \in 1..Len(t.stmts) : t.stmts[i].kind \in Definitions } :
      Body(t, n) # <<>> /\ t.stmts[Body(t, n)[1]].kind = "Str" }

\* The definitions a text holds, in order, each as its kind and name
RECURSIVE DefinitionsOfText(_)
DefinitionsOfText(text) ==
  IF text = <<>> THEN <<>>
  ELSE IF text[1] \in HeaderAtoms
       THEN <<[kind |-> HeaderOf(text[1]).kind, name |-> HeaderOf(text[1]).name]>>
              \o DefinitionsOfText(Tail(text))
       ELSE DefinitionsOfText(Tail(text))

\* C20: once strip_docstrings has returned for a parseable source, no body of
\* the returned source (the Module's, a function's, an async function's or a
\* class's, at any depth) begins with a bare string-literal statement, and the
\* returned source holds every definition of the input, in the input's order.
C20_StripRemovesAllDocstrings ==
  Stripped =>
    /\ StrippedOutput.ok => LeadingStrings(StrippedOutput) = {}
    /\ DefinitionsOfText(stripper.result) = DefinitionsOfText(stripper.source_code)

\* Lines of the bare string literals that open the bodies of the symbols the
\* map names (the module under "__module__", functions, async functions and
\* classes under their names)
SymbolDocLines ==
  UNION { StringDocSpan(n) :
            n \in Named("FunctionDef") \cup Named("AsyncFunctionDef") \cup Named("ClassDef") }
    \cup (IF "__module__" \in DOMAIN docstring_map THEN StringDocSpan(0) ELSE {})

\* C21: at every moment the lines marked for deletion are lines of the bare
\* string literal that opens the body of a symbol the map names, from the
\* literal's first line to its last; once the walk is over the literal of the
\* module and of every function the map names is marked whole, and no line of
\* a first statement of any other kind (a number, pass, a definition) is.
C21_OnlyStringDocstringsDeleted ==
  Parseable =>
    /\ lines_to_delete \subseteq SymbolDocLines
    /\ WalkOver => AddressedDocLines \subseteq lines_to_delete

\* The insertions not yet spliced (read while the insertion loop runs)
Pending == { j \in DOMAIN insertions : j >= k }

\* The buffer entry at 0-based index i is the original line i or its tombstone
StillOriginal(i) == lines[i + 1] \in {SourceLines[i + 1], None}

\* C22: the insertion loop goes through the insertions in non-increasing order
\* of line index; at every moment of the loop the index of every insertion not
\* yet spliced still designates its original line (or the line's tombstone);
\* and once all are spliced every block stands immediately before the original
\* line (or tombstone) that carried its index.
C22_InsertionOrderKeepsIndices ==
  (Parseable /\ pc \in {"insert", "done"}) =>
    /\ \A j \in 1 .. Len(insertions) - 1 : insertions[j][1] >= insertions[j + 1][1]
    /\ pc = "insert" =>
         \A j \in Pending :
           insertions[j][1] < Len(SourceLines) => StillOriginal(insertions[j][1])
    /\ (pc = "done" \/ k > Len(insertions)) =>
         \A j \in DOMAIN insertions :
           LET i == insertions[j][1]
           IN i < Len(SourceLines) =>
                /\ lines[PosAfter(i) - 1] = insertions[j][2]
                /\ lines[PosAfter(i)] \in {SourceLines[i + 1], None}

\* The entries of the buffer that are not tombstones
Entries == SelectSeq(lines, NotNone)

\* C23: up to the deletion step the buffer is the original lines; the
\* deletion step leaves it as long as it was, every marked line a tombstone
\* and every other line at its index; the returned text is the entries that
\* are not tombstones, joined in order: the original lines that are not
\* marked, in order, and the inserted blocks, so that their number is the
\* number of original lines less the marked lines plus the insertions.
C23_TombstoneThenFilter ==
  Parseable =>
    /\ pc \in {"module", "walk"} => lines = SourceLines
    /\ pc = "sort" =>
         /\ Len(lines) = Len(SourceLines)
         /\ \A i \in 0 .. Len(SourceLines) - 1 :
              lines[i + 1] = IF i \in lines_to_delete THEN None ELSE SourceLines[i + 1]
    /\ Returned =>
         /\ result = Join(Entries)
         /\ KeptLines = WithoutLines(SourceLines, lines_to_delete, 1)
         /\ Len(Entries) =
              Len(SourceLines) - Cardinality(lines_to_delete) + Len(insertions)

C23_Witness ==
  /\ Returned
  /\ original_source = ModDoc \o DefFDoc
  /\ DOMAIN docstring_map = {"__module__", "f"}
  /\ lines_to_delete = {0, 1, 3}
  /\ Len(lines) = 7
  /\ Len(Entries) = 4

\* The insertions whose index lies in [0, original_length]
InBounds == { j \in DOMAIN insertions :
                0 <= insertions[j][1] /\ insertions[j][1] <= Len(SourceLines) }

\* How many entries of the buffer are this text
EntriesEqual(text) == Cardinality({ p \in DOMAIN lines : lines[p] = text })

\* How many insertions in bounds carry this text
PlannedEqual(text) == Cardinality({ j \in InBounds : insertions[j][2] = text })

\* C24: every index marked for deletion and every planned insertion index is
\* within the buffer, so that no step reads or writes outside it; once the
\* loop is over every insertion with an index in [0, original_length] is in
\* the buffer (the buffer has grown by one entry for each, none is dropped);
\* an insertion at exactly original_length is the last entry, and a module
\* docstring put into an empty source gives exactly the module block.
C24_EditorBounds ==
  Parseable =>
    /\ lines_to_delete \subseteq 0 .. Len(SourceLines) - 1
    /\ \A j \in DOMAIN insertions : j \in InBounds
    /\ (Returned \/ (pc = "insert" /\ k > Len(insertions))) =>
         /\ Len(lines) = Len(SourceLines) + Cardinality(InBounds)
         /\ \A j \in InBounds :
              /\ EntriesEqual(insertions[j][2]) = PlannedEqual(insertions[j][2])
              /\ insertions[j][1] = Len(SourceLines) =>
                   lines[Len(lines)] = insertions[j][2]
    /\ (Returned /\ original_source = <<>> /\ "__module__" \in DOMAIN docstring_map) =>
         result = ModuleBlock

C24_Witness ==
  /\ Returned
  /\ Parseable
  /\ original_source = <<>>
  /\ DOMAIN docstring_map = {"__module__", "f"}
  /\ insertions = << <<0, ModuleBlock>> >>
  /\ lines = <<ModuleBlock>>
  /\ result = ModuleBlock

\* The texts the formatter was called with and what it returned for each
FormatterCalls ==
  (IF formatter.plain # None
   THEN {[raw |-> formatter.raw_text, out |-> formatter.plain]} ELSE {})
  \cup
  (IF formatter.wrapped # None
   THEN {[raw |-> formatter.delimiter \o formatter.raw_text \o formatter.delimiter,
          out |-> formatter.wrapped]} ELSE {})

\* The text begins and ends with the delimiter q and has 6 characters or more
InDelimiters(t, q) ==
  /\ Len(t) >= 6
  /\ SubSeq(t, 1, 3) = q
  /\ SubSeq(t, Len(t) - 2, Len(t)) = q

\* The content the claim gives a raw text: the trimmed text, less one layer of
\* delimiter and trimmed once more if it is in delimiters, as it is otherwise
ContentOf(raw) ==
  LET t == Strip(raw)
  IN IF InDelimiters(t, DQ3) \/ InDelimiters(t, SQ3)
     THEN Strip(SubSeq(t, 4, Len(t) - 3))
     ELSE t

\* The lines of a block between its first and its last line, each without
\* its line end and without the indent of n spaces
RECURSIVE Dedented(_, _)
Dedented(ls, n) ==
  IF ls = <<>> THEN <<>>
  ELSE LET L == Chomp(Head(ls))
       IN <<IF StartsWith(L, Spaces(n)) THEN From(L, n + 1) ELSE L>> \o Dedented(Tail(ls), n)
BlockContent(block, n) ==
  LET ls == SplitLines(block, <<>>)
  IN Dedented(SubSeq(ls, 2, Len(ls) - 1), n)

\* The lines of a content, a line of nothing but white space as the empty line
RECURSIVE BlanksEmptied(_)
BlanksEmptied(ls) ==
  IF ls = <<>> THEN <<>>
  ELSE <<IF Strip(Head(ls)) = <<>> THEN <<>> ELSE Head(ls)>> \o BlanksEmptied(Tail(ls))
ContentLines(content) == BlanksEmptied(SplitNL(content, <<>>))

\* C25: the block clean_docstring returns holds, between its delimiter lines,
\* the trimmed raw text less exactly one layer of delimiter, trimmed once more,
\* if the trimmed text begins and ends with the same triple-quote delimiter
\* and has 6 characters or more, and the trimmed text as it is in every other
\* case.
C25_UnwrappingRule ==
  \A call \in FormatterCalls :
    BlockContent(call.out, formatter.indent_level) = ContentLines(ContentOf(call.raw))

C25_Witness ==
  /\ BothFormatted
  /\ formatter.raw_text = DQ3 \o <<"a">> \o SQ3
  /\ formatter.delimiter = SQ3
  /\ formatter.indent_level = 4
  /\ formatter.plain = Ln(4, DQ3) \o Ln(4, DQ3 \o <<"a">> \o SQ3) \o Ln(4, DQ3)
  /\ formatter.wrapped = formatter.plain

\* The line of the block for one content line: a bare line end for a line of
\* nothing but white space, n spaces and the line otherwise
RECURSIVE ShapedLines(_, _)
ShapedLines(ls, n) ==
  IF ls = <<>> THEN <<>>
  ELSE <<IF Strip(Head(ls)) = <<>> THEN <<NL>> ELSE Ln(n, Head(ls))>>
         \o ShapedLines(Tail(ls), n)

\* How many line ends the text holds
RECURSIVE LineEnds(_)
LineEnds(t) ==
  IF t = <<>> THEN 0 ELSE (IF Head(t) = NL THEN 1 ELSE 0) + LineEnds(Tail(t))

\* C26: the block clean_docstring returns for a raw text and an indent n is,
\* line by line: n spaces and three double quotes; then one line for each line
\* of the content (split at its line ends), n spaces before a line that is not
\* blank and a bare line end for a blank one; then n spaces and three double
\* quotes.  It ends with exactly one line end, and there is a block for every
\* raw text: for an empty content the two delimiter lines about one bare line.
C26_BlockShape ==
  \A call \in FormatterCalls :
    LET n       == formatter.indent_level
        content == ContentOf(call.raw)
        ls      == SplitLines(call.out, <<>>)
    IN /\ ls = <<Ln(n, DQ3)>> \o ShapedLines(SplitNL(content, <<>>), n) \o <<Ln(n, DQ3)>>
       /\ Len(ls) = LineEnds(content) + 3
       /\ EndsWith(call.out, <<DQ, NL>>)
       /\ content = <<>> => call.out = Ln(n, DQ3) \o <<NL>> \o Ln(n, DQ3)

C26_Witness ==
  /\ formatter.raw_text = <<"a", NL, NL, "a">>
  /\ formatter.indent_level = 4
  /\ formatter.plain = Ln(4, DQ3) \o Ln(4, <<"a">>) \o <<NL>> \o Ln(4, <<"a">>) \o Ln(4, DQ3)

\* Both calls have returned
BothReturned == \A c \in CallIds : calls[c].pc = "done"

\* The calls were given the same source and dicts with the same pairs
EqualArguments ==
  /\ calls[1].original_source = calls[2].original_source
  /\ { calls[1].items[i] : i \in DOMAIN calls[1].items }
       = { calls[2].items[i] : i \in DOMAIN calls[2].items }

\* C27: two calls given the same source text and dicts holding the same
\* key/value pairs, the pairs inserted in any order in each, return the same
\* text, whatever order each call's deletion loop takes the marked indices
\* in; and they have the same blocks at the same indices in the same order,
\* blocks planned at one index included.
C27_Determinism ==
  (BothReturned /\ EqualArguments) =>
    /\ calls[1].result = calls[2].result
    /\ calls[1].insertions = calls[2].insertions
    /\ calls[1].lines = calls[2].lines

C27_Witness ==
  /\ BothReturned
  /\ EqualArguments
  /\ calls[1].original_source = DefFInline
  /\ calls[1].items # calls[2].items
  /\ Len(calls[1].items) = 3
  /\ calls[1].insertions[1][1] = calls[1].insertions[2][1]
  /\ calls[1].result = calls[2].result
  /\ calls[1].result # calls[1].original_source

----------------------------------------------------------------------------
(* generate_documentation: what a call comes to                              *)

\* The keys of the usage dict
UsageKeys == {"input_tokens", "output_tokens", "reasoning_tokens"}

\* The call returned a pair of a code string and a usage dict
ReturnedPair ==
  /\ generator.pc = "returned"
  /\ Len(generator.returned) = 2
  /\ DOMAIN generator.returned[2] = UsageKeys

\* C28: a call of generate_documentation that has ended, whatever the
\* provider, the mode and the answers of the API, has either returned a pair
\* (code string, usage dict with the keys input_tokens, output_tokens,
\* reasoning_tokens) or raised AIDocifyError; nothing else is returned.
C28_OutcomeTotal ==
  GeneratorEnded =>
    \/ ReturnedPair
    \/ generator.pc = "raised" /\ generator.error # ""

\* The loop takes the tool call: it is for the tool, and its arguments are a
\* JSON object with a name and a body that are not empty
Accepted(tool_call) ==
  /\ tool_call.function = ToolName
  /\ tool_call.json = "object"
  /\ tool_call.name \notin {NoName, ""}
  /\ tool_call.body \notin {None, <<>>}

\* The loop skips the tool call: another function, or a missing or empty
\* name, or a missing or empty body
Skipped(tool_call) ==
  \/ tool_call.function # ToolName
  \/ /\ tool_call.json = "object"
     /\ tool_call.name \in {NoName, ""} \/ tool_call.body \in {None, <<>>}

\* The tool calls of the response that are accepted, by position
AcceptedCalls == { i \in DOMAIN generator.tool_calls : Accepted(generator.tool_calls[i]) }

\* The map the accepted tool calls make: for each name the body of the last
\* of them
AcceptedMap ==
  LET names == { generator.tool_calls[i].name : i \in AcceptedCalls }
      last(n) == CHOOSE i \in AcceptedCalls :
                   /\ generator.tool_calls[i].name = n
                   /\ \A j \in AcceptedCalls : generator.tool_calls[j].name = n => j <= i
  IN [n \in names |-> generator.tool_calls[last(n)].body]

\* C29: in inject mode a call whose response carries no tool calls, or only
\* tool calls that are skipped, raises AIDocifyError without calling
\* insert_docstrings_to_source; the injector is called at most once in a call,
\* and only with a map that is not empty and is made of the accepted tool calls.
C29_NeverEditsWithEmptyMap ==
  generator.mode = "inject" =>
    /\ Len(generator.injected) <= 1
    /\ \A i \in DOMAIN generator.injected :
         /\ DOMAIN generator.injected[i] # {}
         /\ generator.injected[i] = AcceptedMap
    /\ (GeneratorEnded /\ \A i \in DOMAIN generator.tool_calls :
                            Skipped(generator.tool_calls[i])) =>
         /\ generator.pc = "raised"
         /\ generator.error # ""
         /\ generator.injected = <<>>

\* A call in inject mode whose response had two tool calls, both skipped, has
\* ended
C29_Witness ==
  /\ generator.mode = "inject"
  /\ GeneratorEnded
  /\ Len(generator.tool_calls) = MaxToolCalls
  /\ \A i \in DOMAIN generator.tool_calls : Skipped(generator.tool_calls[i])
  /\ generator.next_call > Len(generator.tool_calls)
  /\ generator.injected = <<>>

----------------------------------------------------------------------------
(* insert_docstrings_to_source applied to its own output                    *)

\* C30: for a source that parses and a map whose formatted blocks are
\* well-formed single string literals, applying insert_docstrings_to_source
\* to the text it returned, with the same map, gives that text again:
\* f(f(S, M), M) = f(S, M).
C30_ReinjectionIdempotent ==
  (Returned /\ Parseable /\ BlocksWellFormed) =>
    RunAlone(result, docstring_map).result = result

====
